---- MODULE Spec2Model ----
(***************************************************************************)
(* Model of src/app/app.py: the NumberDetector detection loop, the OCR     *)
(* number extraction, and the WebSocket broadcast hub with its per-event   *)
(* broadcast threads.                                                      *)
(***************************************************************************)
EXTENDS Integers, Sequences, FiniteSets, TLC

(***************************************************************************)
(* Bounds of the model.                                                    *)
(***************************************************************************)
MaxFrames == 2
MaxClients == 2
LoopFrames == 10
MaxCalls == 3
MaxFragments == 2

(***************************************************************************)
(* Program constants.                                                      *)
(***************************************************************************)
confidence_threshold == 50
DecimationFactor == 5

None == [kind |-> "none", mant |-> 0, exp |-> 0]

(***************************************************************************)
(* Number extraction (extract_numbers): text is a sequence of characters.  *)
(***************************************************************************)
Digits == {"0", "1", "2", "3", "4", "5", "6", "7", "8", "9"}

DigitVal(ch) ==
    CASE ch = "0" -> 0 [] ch = "1" -> 1 [] ch = "2" -> 2 [] ch = "3" -> 3
      [] ch = "4" -> 4 [] ch = "5" -> 5 [] ch = "6" -> 6 [] ch = "7" -> 7
      [] ch = "8" -> 8 [] ch = "9" -> 9

\* str.strip(): drop leading and trailing blanks.
RECURSIVE LStrip(_)
LStrip(s) == IF s # <<>> /\ Head(s) = " " THEN LStrip(Tail(s)) ELSE s

RECURSIVE RStrip(_)
RStrip(s) ==
    IF s # <<>> /\ s[Len(s)] = " " THEN RStrip(SubSeq(s, 1, Len(s) - 1)) ELSE s

Strip(s) == RStrip(LStrip(s))

\* Index one past the maximal digit run of s that starts at i.
RECURSIVE DigitRunEnd(_, _)
DigitRunEnd(s, i) ==
    IF i <= Len(s) /\ s[i] \in Digits THEN DigitRunEnd(s, i + 1) ELSE i

\* Index one past the match of \d+\.?\d* that starts at i (s[i] is a digit).
MatchEnd(s, i) ==
    LET a == DigitRunEnd(s, i)
    IN  IF a <= Len(s) /\ s[a] = "." THEN DigitRunEnd(s, a + 1) ELSE a

\* re.findall(r'\d+\.?\d*', text): the non-overlapping matches, left to right.
RECURSIVE FindAllFrom(_, _)
FindAllFrom(s, i) ==
    IF i > Len(s) THEN <<>>
    ELSE IF s[i] \in Digits
         THEN LET e == MatchEnd(s, i)
              IN  <<SubSeq(s, i, e - 1)>> \o FindAllFrom(s, e)
         ELSE FindAllFrom(s, i + 1)

FindAll(s) == FindAllFrom(s, 1)

HasDot(m) == \E i \in 1..Len(m) : m[i] = "."

\* Value of a digit string read in base ten.
RECURSIVE DigitsValue(_)
DigitsValue(m) ==
    IF m = <<>> THEN 0
    ELSE 10 * DigitsValue(SubSeq(m, 1, Len(m) - 1)) + DigitVal(m[Len(m)])

\* A number is mant / 10^exp with no trailing zero in the fraction.
RECURSIVE Normalize(_, _, _)
Normalize(k, mant, exp) ==
    IF exp > 0 /\ mant % 10 = 0 THEN Normalize(k, mant \div 10, exp - 1)
    ELSE [kind |-> k, mant |-> mant, exp |-> exp]

\* int(match)
ParseInt(m) == [kind |-> "int", mant |-> DigitsValue(m), exp |-> 0]

\* float(match): match is digits "." digits
ParseFloat(m) ==
    LET dot == CHOOSE i \in 1..Len(m) : m[i] = "."
        whole == SubSeq(m, 1, dot - 1)
        frac == SubSeq(m, dot + 1, Len(m))
    IN  Normalize("float", DigitsValue(whole \o frac), Len(frac))

ParseMatch(m) == IF HasDot(m) THEN ParseFloat(m) ELSE ParseInt(m)

\* Python's == on int and float values: numeric equality, None equal only to None.
NumEq(a, b) ==
    IF a.kind = "none" \/ b.kind = "none" THEN a.kind = b.kind
    ELSE a.mant = b.mant /\ a.exp = b.exp

RECURSIVE ParseAll(_)
ParseAll(ms) ==
    IF ms = <<>> THEN <<>> ELSE <<ParseMatch(Head(ms))>> \o ParseAll(Tail(ms))

\* A confidence on the engine's scale: whole units and tenths of a unit.
Conf(whole, tenths) == [whole |-> whole, tenths |-> tenths]

\* line 119: int(data['conf'][i]) drops the fraction.
IntConf(conf) == conf.whole

\* Mutant of FragmentNumbers: a fragment exactly at the threshold passes.
FragmentNumbers_AtLeast(frag) ==
    LET text == Strip(frag.text)
    IN  IF text # <<>> /\ IntConf(frag.conf) >= confidence_threshold
        THEN ParseAll(FindAll(text))
        ELSE <<>>

\* The numbers one OCR fragment contributes (lines 118-133).
FragmentNumbers(frag) ==
    LET text == Strip(frag.text)
        conf == IntConf(frag.conf)
    IN  IF text # <<>> /\ conf > confidence_threshold
        THEN ParseAll(FindAll(text))
        ELSE <<>>

RECURSIVE FragmentsNumbers(_)
FragmentsNumbers(frags) ==
    IF frags = <<>> THEN <<>>
    ELSE FragmentNumbers(Head(frags)) \o FragmentsNumbers(Tail(frags))

\* The recognition engine's answer for a frame: it raises, or returns fragments.
OcrFail == [ok |-> FALSE, frags |-> <<>>]

OcrOk(frags) == [ok |-> TRUE, frags |-> frags]

\* Mutant of extract_numbers: a failure of the engine yields the number 0.
extract_numbers_FailOpen(ocr) ==
    IF ocr.ok THEN FragmentsNumbers(ocr.frags) ELSE <<ParseInt(<<"0">>)>>

\* extract_numbers: any exception yields the empty list.
extract_numbers(ocr) == IF ocr.ok THEN FragmentsNumbers(ocr.frags) ELSE <<>>

\* The frames the camera can deliver, by what the engine reads from them.
FrameContents ==
    { OcrFail,
      OcrOk(<< [text |-> <<" ">>, conf |-> Conf(95, 0)], [text |-> <<".", ".", ".">>, conf |-> Conf(95, 0)] >>),
      OcrOk(<< [text |-> <<"5">>, conf |-> Conf(60, 0)] >>),
      OcrOk(<< [text |-> <<"7">>, conf |-> Conf(50, 0)], [text |-> <<" ", "5", ".", "0">>, conf |-> Conf(51, 3)] >>),
      OcrOk(<< [text |-> <<"4", "2", ".", "5", "m">>, conf |-> Conf(90, 0)],
               [text |-> <<"0", "0", "0", "1", "2">>, conf |-> Conf(90, 0)] >>) }

NoFrame == [ok |-> FALSE, frags |-> << [text |-> <<>>, conf |-> Conf(0, 0)] >>]


(***************************************************************************)
(* State.                                                                  *)
(***************************************************************************)
VARIABLES
    pc,                 \* position of the detection thread in start_detection
    exit,               \* why the detection loop was left
    cap,                \* self.cap: "none", "unopened", "open", "released"
    running,            \* self.running
    last_number,        \* self.last_number
    frame_count,        \* local frame_count of start_detection
    frame,              \* what the engine reads from the frame in hand
    current_number,     \* local current_number of start_detection
    connected_clients,  \* self.connected_clients
    conn,               \* per connection: "new", "open", "closed", "gone"
    th,                 \* the broadcast threads started by send_number_sync
    nThreads,           \* number of broadcast threads started so far
    mainDone,           \* main() has run its finally clause
    releases,           \* calls of cap.release() so far
    received,           \* per connection, the events delivered to it, in order
    prior,              \* per connection, the threads whose event was built before it attached
    emitted,            \* arguments of the send_number_sync calls, in order
    cands,              \* first extracted number of each processed frame with numbers
    before,             \* last_number and Len(emitted) when the frame in hand was read
    acquired,           \* frames read successfully so far
    extracted,          \* acquisition indices of the frames passed to extract_numbers
    returned,           \* what a direct call of extract_numbers returned
    calls               \* direct calls of register_client and unregister_client, in order

vars == << pc, exit, cap, running, last_number, frame_count, frame, current_number,
           connected_clients, conn, th, nThreads, mainDone, releases, received,
           prior, emitted, cands, before, acquired, extracted, returned, calls >>

testVars == << returned, calls >>

detVars == << pc, exit, cap, running, last_number, frame_count, frame, current_number,
              emitted, cands, before, acquired, extracted >>

hubVars == << connected_clients, conn, th, nThreads, received, prior >>

Clients == 1..MaxClients

\* One broadcast thread per processed frame at most.
MaxThreads == (LoopFrames + DecimationFactor - 1) \div DecimationFactor

Threads == 1..MaxThreads

\* A broadcast thread: its position, the index in emitted of the number it carries,
\* and the locals of broadcast_number (the set iterator's remaining entries and the
\* set size it was created with, the client being sent to, the set disconnected).
Thread(p, e) ==
    [pc |-> p, event |-> e, pending |-> {}, size0 |-> 0, cur |-> {},
     disconnected |-> {}]

Unborn == Thread("unborn", 0)

\* A thread whose run_broadcast has ended; its locals are gone.
Ended == Thread("done", 0)

\* broadcast_number has built the thread's event (lines 34-39).
Published(t) == th[t].pc \notin {"unborn", "start"}

\* The thread's set iterator is live: created and not yet exhausted or broken.
Iterating(t) == th[t].pc \in {"iter", "sending"}

InLoop == {"loop", "read", "send", "assign"}

Init ==
    /\ pc = "idle"
    /\ exit = "none"
    /\ cap = "none"
    /\ running = FALSE
    /\ last_number = None
    /\ frame_count = 0
    /\ frame = NoFrame
    /\ current_number = None
    /\ connected_clients = {}
    /\ conn = [c \in Clients |-> "new"]
    /\ th = [t \in Threads |-> Unborn]
    /\ nThreads = 0
    /\ mainDone = FALSE
    /\ releases = 0
    /\ received = [c \in Clients |-> <<>>]
    /\ prior = [c \in Clients |-> {}]
    /\ emitted = <<>>
    /\ cands = <<>>
    /\ before = [last |-> None, n |-> 0]
    /\ acquired = 0
    /\ extracted = {}
    /\ returned = <<>>
    /\ calls = <<>>

(***************************************************************************)
(* NumberDetector.cleanup, as called from a given place.                   *)
(***************************************************************************)
cleanup ==
    /\ running' = FALSE
    /\ IF cap # "none"
       THEN /\ cap' = IF cap = "unopened" THEN "unopened" ELSE "released"
            /\ releases' = releases + 1
       ELSE UNCHANGED << cap, releases >>

(***************************************************************************)
(* The detection thread: start_detection.                                  *)
(***************************************************************************)
\* Mutant of OpenCamera: the result of isOpened() is not acted upon.
OpenCamera_NoCheck ==
    /\ pc = "idle"
    /\ \E ok \in BOOLEAN :
          IF ok THEN /\ cap' = "open"
                     /\ pc' = "opened"
                     /\ UNCHANGED exit
                ELSE /\ cap' = "unopened"
                     /\ pc' = "opened"
                     /\ exit' = "open_failed"
    /\ UNCHANGED << running, last_number, frame_count, frame, current_number,
                    emitted, cands, before, acquired, extracted, releases, mainDone >>
    /\ UNCHANGED << hubVars, testVars >>

\* lines 146-149: open the camera; return at once if it did not open.
OpenCamera ==
    /\ pc = "idle"
    /\ \E ok \in BOOLEAN :
          IF ok THEN /\ cap' = "open"
                     /\ pc' = "opened"
                     /\ UNCHANGED exit
                ELSE /\ cap' = "unopened"
                     /\ pc' = "returned"
                     /\ exit' = "open_failed"
    /\ UNCHANGED << running, last_number, frame_count, frame, current_number,
                    emitted, cands, before, acquired, extracted, releases, mainDone >>
    /\ UNCHANGED << hubVars, testVars >>

\* lines 152-156
SetRunning ==
    /\ pc = "opened"
    /\ running' = TRUE
    /\ frame_count' = 0
    /\ pc' = "loop"
    /\ UNCHANGED << exit, cap, last_number, frame, current_number, emitted, cands,
                    before, acquired, extracted, releases, mainDone >>
    /\ UNCHANGED << hubVars, testVars >>

\* Mutant of LoopTest: while True
LoopTest_Forever ==
    /\ pc = "loop"
    /\ pc' = "read"
    /\ frame' = NoFrame
    /\ before' = [last |-> None, n |-> 0]
    /\ UNCHANGED << exit, cap, running, last_number, frame_count, current_number,
                    emitted, cands, acquired, extracted, releases, mainDone >>
    /\ UNCHANGED << hubVars, testVars >>

\* line 159: while self.running
LoopTest ==
    /\ pc = "loop"
    /\ IF running THEN pc' = "read" /\ UNCHANGED exit
                  ELSE pc' = "finally" /\ exit' = "flag"
    /\ frame' = NoFrame
    /\ before' = [last |-> None, n |-> 0]
    /\ UNCHANGED << cap, running, last_number, frame_count, current_number,
                    emitted, cands, acquired, extracted, releases, mainDone >>
    /\ UNCHANGED << hubVars, testVars >>

\* Mutant of Processed: the frame after every fifth one is processed.
Processed_Shifted(i) == i % DecimationFactor = 1

\* The decimation test of line 166.
Processed(i) == i % DecimationFactor = 0

\* Mutant of Changed: comparison by type and value, so that 5 and 5.0 differ.
Changed_Identity(number, last) == number # last

\* The comparison of line 174.
Changed(number, last) == ~NumEq(number, last)

\* Mutant of EndOfIteration: the stop key is read but the loop is not left.
EndOfIteration_NoBreak ==
    \E outcome \in {"next", "q", "error"} :
       CASE outcome = "next" ->
               /\ frame_count' = frame_count + 1
               /\ pc' = "loop"
               /\ UNCHANGED exit
         [] outcome = "q" ->
               /\ frame_count' = frame_count + 1
               /\ pc' = "loop"
               /\ exit' = "stop_key"
         [] outcome = "error" ->
               /\ pc' = "finally"
               /\ exit' = "exception"
               /\ UNCHANGED frame_count

\* lines 179-185: preview, stop key, frame_count += 1.
EndOfIteration ==
    \E outcome \in {"next", "q", "error"} :
       CASE outcome = "next" ->
               /\ frame_count' = frame_count + 1
               /\ pc' = "loop"
               /\ UNCHANGED exit
         [] outcome = "q" ->
               /\ pc' = "finally"
               /\ exit' = "stop_key"
               /\ UNCHANGED frame_count
         [] outcome = "error" ->
               /\ pc' = "finally"
               /\ exit' = "exception"
               /\ UNCHANGED frame_count

\* lines 160-174 and, when nothing is to be sent, 179-185: cap.read() (a released
\* handle yields no frame), decimation, extraction, change detection.
Iterate(maxFrames) ==
    /\ pc = "read"
    /\ \/ /\ cap = "open"
          /\ frame_count < maxFrames
          /\ acquired' = acquired + 1
          /\ before' = [last |-> last_number, n |-> Len(emitted)]
          /\ IF Processed(frame_count)
             THEN \E f \in FrameContents :
                     LET numbers == extract_numbers(f)
                     IN  /\ frame' = f
                         /\ extracted' = extracted \cup {acquired}
                         /\ IF numbers # <<>>
                            THEN /\ cands' = Append(cands, numbers[1])
                                 /\ current_number' = numbers[1]
                                 /\ IF Changed(numbers[1], last_number)
                                    THEN /\ pc' = "send"
                                         /\ UNCHANGED << exit, frame_count >>
                                    ELSE EndOfIteration
                            ELSE /\ EndOfIteration
                                 /\ UNCHANGED << cands, current_number >>
             ELSE /\ frame' = NoFrame
                  /\ EndOfIteration
                  /\ UNCHANGED << extracted, cands, current_number >>
       \/ /\ pc' = "finally"
          /\ exit' = "read_failed"
          /\ UNCHANGED << frame, acquired, before, extracted, cands,
                          current_number, frame_count >>
    /\ UNCHANGED << cap, running, last_number, emitted, releases, mainDone >>
    /\ UNCHANGED << hubVars, testVars >>

\* Mutant of StartsThread: the emptiness test of line 69 is missing.
StartsThread_Always(clients) == TRUE

\* line 69: a broadcast thread is started only when there are observers.
StartsThread(clients) == clients # {}

\* Mutant of send_number_sync: the caller joins the broadcast thread.
send_number_sync_Joined ==
    /\ pc = "send"
    /\ IF Len(emitted) = before.n
       THEN /\ emitted' = Append(emitted, current_number)
            /\ IF StartsThread(connected_clients)
               THEN /\ nThreads' = nThreads + 1
                    /\ th' = [th EXCEPT ![nThreads + 1] =
                                 Thread("start", Len(emitted) + 1)]
                    /\ pc' = "send"
               ELSE /\ pc' = "assign"
                    /\ UNCHANGED << nThreads, th >>
       ELSE /\ th[nThreads].pc = "done"
            /\ pc' = "assign"
            /\ UNCHANGED << emitted, nThreads, th >>
    /\ UNCHANGED << exit, cap, running, last_number, frame_count, frame,
                    current_number, cands, before, acquired, extracted,
                    releases, mainDone >>
    /\ UNCHANGED << connected_clients, conn, received, prior, testVars >>

\* lines 67-82 as called at line 175.
send_number_sync ==
    /\ pc = "send"
    /\ emitted' = Append(emitted, current_number)
    /\ IF StartsThread(connected_clients)
       THEN /\ nThreads' = nThreads + 1
            /\ th' = [th EXCEPT ![nThreads + 1] = Thread("start", Len(emitted) + 1)]
       ELSE UNCHANGED << nThreads, th >>
    /\ pc' = "assign"
    /\ UNCHANGED << exit, cap, running, last_number, frame_count, frame,
                    current_number, cands, before, acquired, extracted,
                    releases, mainDone >>
    /\ UNCHANGED << connected_clients, conn, received, prior, testVars >>

\* Mutant of AssignLast: last_number is not updated.
AssignLast_Stale ==
    /\ pc = "assign"
    /\ EndOfIteration
    /\ UNCHANGED << cap, running, last_number, frame, current_number, emitted,
                    cands, before, acquired, extracted, releases, mainDone >>
    /\ UNCHANGED << hubVars, testVars >>

\* Mutant of AssignLast: last_number is updated only when there are observers.
AssignLast_IfObserved ==
    /\ pc = "assign"
    /\ last_number' = IF connected_clients # {} THEN current_number ELSE last_number
    /\ EndOfIteration
    /\ UNCHANGED << cap, running, frame, current_number, emitted,
                    cands, before, acquired, extracted, releases, mainDone >>
    /\ UNCHANGED << hubVars, testVars >>

\* line 176, then lines 179-185.
AssignLast ==
    /\ pc = "assign"
    /\ last_number' = current_number
    /\ EndOfIteration
    /\ UNCHANGED << cap, running, frame, current_number, emitted,
                    cands, before, acquired, extracted, releases, mainDone >>
    /\ UNCHANGED << hubVars, testVars >>

\* lines 187-188: KeyboardInterrupt raised inside the loop.
Interrupt ==
    /\ pc \in InLoop
    /\ pc' = "finally"
    /\ exit' = "interrupt"
    /\ UNCHANGED << cap, running, last_number, frame_count, frame, current_number,
                    emitted, cands, before, acquired, extracted, releases, mainDone >>
    /\ UNCHANGED << hubVars, testVars >>

\* Mutant of DetectorCleanup: cleanup follows the loop instead of sitting in a
\* finally clause, so an exception other than KeyboardInterrupt skips it.
DetectorCleanup_NoFinally ==
    /\ pc = "finally"
    /\ IF exit = "exception" THEN UNCHANGED << running, cap, releases >> ELSE cleanup
    /\ pc' = "returned"
    /\ frame_count' = 0
    /\ current_number' = None
    /\ frame' = NoFrame
    /\ before' = [last |-> None, n |-> 0]
    /\ UNCHANGED << exit, last_number, emitted, cands, acquired, extracted, mainDone >>
    /\ UNCHANGED << hubVars, testVars >>

\* lines 189-190: finally: self.cleanup(); the locals end with the call.
DetectorCleanup ==
    /\ pc = "finally"
    /\ cleanup
    /\ pc' = "returned"
    /\ frame_count' = 0
    /\ current_number' = None
    /\ frame' = NoFrame
    /\ before' = [last |-> None, n |-> 0]
    /\ UNCHANGED << exit, last_number, emitted, cands, acquired, extracted, mainDone >>
    /\ UNCHANGED << hubVars, testVars >>

\* lines 225-226: main()'s finally: detector.cleanup()
MainCleanup ==
    /\ ~mainDone
    /\ mainDone' = TRUE
    /\ cleanup
    /\ UNCHANGED << pc, exit, last_number, frame_count, frame, current_number,
                    emitted, cands, before, acquired, extracted >>
    /\ UNCHANGED << hubVars, testVars >>


(***************************************************************************)
(* The server event loop: handle_client, register_client,                  *)
(* unregister_client.                                                      *)
(***************************************************************************)
\* A live set iterator after client was added to the set: the new entry's slot
\* lies ahead of the iterator's position or behind it.
AfterAdd(client, ahead) ==
    [t \in Threads |->
        IF Iterating(t) /\ t \in ahead
        THEN [th[t] EXCEPT !.pending = @ \cup {client}]
        ELSE th[t]]

\* A live set iterator after gone was discarded from the set.
AfterDiscard(gone, self) ==
    [t \in Threads |->
        IF Iterating(t) /\ t # self
        THEN [th[t] EXCEPT !.pending = @ \ gone]
        ELSE th[t]]

\* Mutant of Attach: an observer already present is taken out again.
Attach_Toggle(clients, client) ==
    IF client \in clients THEN clients \ {client} ELSE clients \cup {client}

\* line 23: self.connected_clients.add(websocket)
Attach(clients, client) == clients \cup {client}

\* line 28: self.connected_clients.discard(websocket)
Detach(clients, client) == clients \ {client}

\* lines 55-57, 21-24: a connection is accepted and registered.
register_client(client) ==
    /\ conn[client] = "new"
    /\ ~mainDone
    /\ conn' = [conn EXCEPT ![client] = "open"]
    /\ connected_clients' = Attach(connected_clients, client)
    /\ prior' = [prior EXCEPT ![client] = {t \in Threads : Published(t)}]
    /\ \E ahead \in SUBSET {t \in Threads : Iterating(t)} :
          th' = AfterAdd(client, ahead)
    /\ UNCHANGED << nThreads, received >>
    /\ UNCHANGED << detVars, testVars >>
    /\ UNCHANGED << mainDone, releases >>

\* The peer or the network closes an open connection.
ConnectionClosed(client) ==
    /\ conn[client] = "open"
    /\ conn' = [conn EXCEPT ![client] = "closed"]
    /\ UNCHANGED << connected_clients, th, nThreads, received, prior >>
    /\ UNCHANGED << detVars, testVars >>
    /\ UNCHANGED << mainDone, releases >>

\* Mutant of unregister_client: the handler ends without a finally clause, so
\* a connection that ended with an error is not unregistered.
unregister_client_NoFinally(client) ==
    /\ conn[client] = "closed"
    /\ conn' = [conn EXCEPT ![client] = "gone"]
    /\ UNCHANGED << connected_clients, th, nThreads, received, prior >>
    /\ UNCHANGED << detVars, testVars >>
    /\ UNCHANGED << mainDone, releases >>

\* lines 58-65, 26-29: the handler leaves its receive loop and unregisters.
unregister_client(client) ==
    /\ conn[client] = "closed"
    /\ conn' = [conn EXCEPT ![client] = "gone"]
    /\ connected_clients' = Detach(connected_clients, client)
    /\ th' = AfterDiscard({client}, 0)
    /\ UNCHANGED << nThreads, received, prior >>
    /\ UNCHANGED << detVars, testVars >>
    /\ UNCHANGED << mainDone, releases >>

(***************************************************************************)
(* A broadcast thread: run_broadcast running broadcast_number.             *)
(***************************************************************************)
\* lines 33-43: the emptiness test, the message, the set iterator.
BroadcastStart(t) ==
    /\ th[t].pc = "start"
    /\ IF connected_clients = {}
       THEN th' = [th EXCEPT ![t] = Ended]
       ELSE th' = [th EXCEPT ![t].pc = "iter",
                             ![t].pending = connected_clients,
                             ![t].size0 = Cardinality(connected_clients)]
    /\ UNCHANGED << connected_clients, conn, nThreads, received, prior >>
    /\ UNCHANGED << detVars, testVars >>
    /\ UNCHANGED << mainDone, releases >>

\* The set iterator's size test: RuntimeError when the set changed size.
SizeChanged(t) == Cardinality(connected_clients) # th[t].size0

\* lines 43-45: the iterator's next step, and the start of the send.
BroadcastNext(t) ==
    /\ th[t].pc = "iter"
    /\ IF SizeChanged(t)
       THEN th' = [th EXCEPT ![t] = Ended]
       ELSE IF th[t].pending = {}
            THEN th' = [th EXCEPT ![t].pc = "remove"]
            ELSE \E client \in th[t].pending :
                    th' = [th EXCEPT ![t].pc = "sending",
                                     ![t].cur = {client},
                                     ![t].pending = @ \ {client}]
    /\ UNCHANGED << connected_clients, conn, nThreads, received, prior >>
    /\ UNCHANGED << detVars, testVars >>
    /\ UNCHANGED << mainDone, releases >>

\* lines 45-47: the send returns, or raises ConnectionClosed.
SendReturns(t) ==
    /\ th[t].pc = "sending"
    /\ \E client \in th[t].cur :
          IF conn[client] = "open"
          THEN /\ received' = [received EXCEPT ![client] = Append(@, t)]
               /\ th' = [th EXCEPT ![t].pc = "iter", ![t].cur = {}]
          ELSE /\ th' = [th EXCEPT ![t].pc = "iter", ![t].cur = {},
                                   ![t].disconnected = @ \cup {client}]
               /\ UNCHANGED received
    /\ UNCHANGED << connected_clients, conn, nThreads, prior >>
    /\ UNCHANGED << detVars, testVars >>
    /\ UNCHANGED << mainDone, releases >>

\* lines 50-53: discard the clients whose send raised.
BroadcastRemove(t) ==
    /\ th[t].pc = "remove"
    /\ connected_clients' = connected_clients \ th[t].disconnected
    /\ th' = [AfterDiscard(th[t].disconnected, t) EXCEPT ![t] = Ended]
    /\ UNCHANGED << conn, nThreads, received, prior >>
    /\ UNCHANGED << detVars, testVars >>
    /\ UNCHANGED << mainDone, releases >>

\* The detection thread's own steps.
DetectorStep(maxFrames) ==
    \/ OpenCamera
    \/ SetRunning
    \/ LoopTest
    \/ Iterate(maxFrames)
    \/ send_number_sync
    \/ AssignLast
    \/ DetectorCleanup

\* The detection thread.
Detector(maxFrames) == DetectorStep(maxFrames) \/ Interrupt

\* The server event loop, serving the given connections.
Server(clients) ==
    \/ \E client \in clients : register_client(client)
    \/ \E client \in clients : ConnectionClosed(client)
    \/ \E client \in clients : unregister_client(client)

\* The broadcast threads.
Broadcast ==
    \/ \E t \in Threads : BroadcastStart(t)
    \/ \E t \in Threads : BroadcastNext(t)
    \/ \E t \in Threads : SendReturns(t)
    \/ \E t \in Threads : BroadcastRemove(t)

\* The whole program over a short run of the camera.
Next == Detector(MaxFrames) \/ MainCleanup \/ Server(Clients) \/ Broadcast

Spec == Init /\ [][Next]_vars

\* The whole program over a long run of the camera, with one observer.
LoopNext == Detector(LoopFrames) \/ MainCleanup \/ Server({1}) \/ Broadcast

LoopSpec == Init /\ [][LoopNext]_vars


(***************************************************************************)
(* register_client and unregister_client called directly, in any order and *)
(* with any websocket, on any observer set.                                *)
(***************************************************************************)
CallsInit ==
    /\ pc = "idle"
    /\ exit = "none"
    /\ cap = "none"
    /\ running = FALSE
    /\ last_number = None
    /\ frame_count = 0
    /\ frame = NoFrame
    /\ current_number = None
    /\ connected_clients \in SUBSET Clients
    /\ conn = [c \in Clients |-> "new"]
    /\ th = [t \in Threads |-> Unborn]
    /\ nThreads = 0
    /\ mainDone = FALSE
    /\ releases = 0
    /\ received = [c \in Clients |-> <<>>]
    /\ prior = [c \in Clients |-> {}]
    /\ emitted = <<>>
    /\ cands = <<>>
    /\ before = [last |-> None, n |-> 0]
    /\ acquired = 0
    /\ extracted = {}
    /\ returned = <<>>
    /\ calls = <<>>

\* lines 21-24
CallRegister(client) ==
    /\ Len(calls) < MaxCalls
    /\ connected_clients' = Attach(connected_clients, client)
    /\ calls' = Append(calls, [op |-> "attach", client |-> client,
                               old |-> connected_clients,
                               new |-> connected_clients'])
    /\ UNCHANGED << detVars, conn, th, nThreads, received, prior, mainDone, releases,
                    returned >>

\* lines 26-29
CallUnregister(client) ==
    /\ Len(calls) < MaxCalls
    /\ connected_clients' = Detach(connected_clients, client)
    /\ calls' = Append(calls, [op |-> "detach", client |-> client,
                               old |-> connected_clients,
                               new |-> connected_clients'])
    /\ UNCHANGED << detVars, conn, th, nThreads, received, prior, mainDone, releases,
                    returned >>

CallsNext ==
    \/ \E client \in Clients : CallRegister(client)
    \/ \E client \in Clients : CallUnregister(client)

CallsSpec == CallsInit /\ [][CallsNext]_vars

(***************************************************************************)
(* extract_numbers called on what the engine can return for one frame.     *)
(***************************************************************************)
ExtractTexts ==
    { <<"7">>, <<" ", "5", ".", "0">>, <<"1", "a", "2">>, <<" ">>, <<".">> }

ExtractConfs ==
    { Conf(0, 0), Conf(49, 0), Conf(49, 9), Conf(50, 0), Conf(50, 5), Conf(51, 0),
      Conf(51, 5) }

ExtractFragments == [text : ExtractTexts, conf : ExtractConfs]

ExtractInputs ==
    {OcrFail} \cup
    { OcrOk(frags) : frags \in UNION { [1..n -> ExtractFragments] : n \in 1..MaxFragments } }

ExtractInit ==
    /\ pc = "extract"
    /\ exit = "none"
    /\ cap = "none"
    /\ running = FALSE
    /\ last_number = None
    /\ frame_count = 0
    /\ frame \in ExtractInputs
    /\ current_number = None
    /\ connected_clients = {}
    /\ conn = [c \in Clients |-> "new"]
    /\ th = [t \in Threads |-> Unborn]
    /\ nThreads = 0
    /\ mainDone = FALSE
    /\ releases = 0
    /\ received = [c \in Clients |-> <<>>]
    /\ prior = [c \in Clients |-> {}]
    /\ emitted = <<>>
    /\ cands = <<>>
    /\ before = [last |-> None, n |-> 0]
    /\ acquired = 0
    /\ extracted = {}
    /\ returned = <<>>
    /\ calls = <<>>

\* lines 104-139
ExtractCall ==
    /\ pc = "extract"
    /\ pc' = "extracted"
    /\ returned' = extract_numbers(frame)
    /\ UNCHANGED << exit, cap, running, last_number, frame_count, frame, current_number,
                    emitted, cands, before, acquired, extracted, hubVars, mainDone,
                    releases, calls >>

ExtractNext == ExtractCall

ExtractSpec == ExtractInit /\ [][ExtractNext]_vars

(***************************************************************************)
(* Fairness: the detection thread is an operating-system thread of its own *)
(* and keeps being scheduled; nothing is assumed of the broadcast threads, *)
(* whose sends may never return, nor of the observers or of interrupts.    *)
(***************************************************************************)
LiveSpec == LoopSpec /\ WF_vars(DetectorStep(LoopFrames))

\* A broadcast thread's own steps: all but the return of a send, which waits
\* for the observer.
BroadcastStep(t) ==
    \/ BroadcastStart(t)
    \/ BroadcastNext(t)
    \/ BroadcastRemove(t)

(***************************************************************************)
(* Fairness of everything the program does by itself: the detection        *)
(* thread, every broadcast thread up to its sends, and the server loop's   *)
(* handlers once their connection has ended.  Nothing is assumed of the    *)
(* observers (connecting, closing, letting a send return), of interrupts   *)
(* or of the end of main.                                                  *)
(***************************************************************************)
FairSpec ==
    /\ Init
    /\ [][Next]_vars
    /\ WF_vars(DetectorStep(MaxFrames))
    /\ WF_vars(\E t \in Threads : BroadcastStep(t))
    /\ WF_vars(\E client \in Clients : unregister_client(client))

(***************************************************************************)
(* Properties.                                                             *)
(***************************************************************************)
\* A processed iteration has run to its end (the frame in hand went through
\* extraction, and the loop body was not cut short by KeyboardInterrupt).
IterationDone ==
    /\ frame # NoFrame
    /\ pc \in {"loop", "finally"}
    /\ exit # "interrupt"

\* The iteration just ended sent a number to the hub.
SentThisIteration == Len(emitted) = before.n + 1

\* C1: in every processed iteration a number is sent to the hub if and only if
\* extraction returned a non-empty list whose first element is not numerically
\* equal to last_number (None differs from every number); after a send
\* last_number is the number sent, and otherwise last_number is as it was.
C1_EmitIffChanged ==
    IterationDone =>
       LET numbers == extract_numbers(frame)
           differs == numbers # <<>> /\ ~NumEq(numbers[1], before.last)
       IN  /\ Len(emitted) \in {before.n, before.n + 1}
           /\ SentThisIteration <=> differs
           /\ SentThisIteration =>
                 /\ emitted[Len(emitted)] = numbers[1]
                 /\ last_number = emitted[Len(emitted)]
           /\ ~SentThisIteration => last_number = before.last

\* A processed iteration replaced an earlier number by a different one.
C1_Witness ==
    /\ IterationDone
    /\ SentThisIteration
    /\ before.last # None
    /\ last_number # before.last

\* s without the elements numerically equal to their predecessor.
RECURSIVE Debounced(_)
Debounced(s) ==
    IF Len(s) <= 1 THEN s
    ELSE LET front == SubSeq(s, 1, Len(s) - 1)
         IN  IF NumEq(s[Len(s)], s[Len(s) - 1])
             THEN Debounced(front)
             ELSE Append(Debounced(front), s[Len(s)])

\* C2: over any run of processed frames the numbers sent to the hub are exactly
\* the first extracted numbers with every repetition of the preceding one left
\* out: one event per change, carrying the new value, and none while it stays.
C2_OneEventPerChange ==
    (pc # "send" /\ exit # "interrupt") => emitted = Debounced(cands)

\* Two events were sent, the second for a change of the first extracted number.
C2_Witness ==
    /\ pc = "loop"
    /\ Len(cands) = 2
    /\ Len(emitted) = 2
    /\ emitted[2] = cands[2]


\* The clients thread t was to send to and has not: still ahead of its iterator,
\* still attached after the step, and attached before the thread's event was built.
Unattempted(t) ==
    {c \in th[t].pending \cap connected_clients' : t \notin prior[c]}

\* C3: when a broadcast ends in which the send to some observer failed, every
\* other observer attached at the time of the publish (and still attached) was
\* sent to, and the failed observers are no longer in the observer set.
C3_FailureIsolated ==
    [][\A t \in Threads :
          (th[t].pc \in {"iter", "remove"} /\ th'[t].pc = "done"
             /\ th[t].disconnected # {})
          => /\ Unattempted(t) = {}
             /\ th[t].disconnected \cap connected_clients' = {}]_vars

\* C4: connected_clients is not changed (by register_client, unregister_client
\* or the removal step of a broadcast) while a broadcast thread's iteration over
\* it is under way.
C4_MutualExclusion ==
    [][connected_clients' # connected_clients
          => ~(\E t \in Threads : Iterating(t))]_vars

\* The step C5 starts from: send_number_sync has been called for the frame in hand.
C5_Emitted == pc \in {"send", "assign"} /\ SentThisIteration

\* C5: after a number was sent to the hub the detection loop gets to its next
\* cap.read() (or leaves the loop) whatever the broadcast threads do, also when a
\* send never returns.
C5_LoopGoesOn == C5_Emitted ~> (pc \in {"read", "finally", "returned"})

\* The loop is at the read of the next frame while a send is still in flight.
C5_Witness ==
    /\ pc = "read"
    /\ frame_count = 1
    /\ \E t \in Threads : th[t].pc = "sending"

\* C6: whichever way the loop was left after the camera was opened, the handle
\* has been released when start_detection has returned.
C6_ReleasedOnReturn ==
    (pc = "returned" /\ exit # "open_failed") => (cap = "released" /\ releases >= 1)

\* start_detection has returned through an exception of the loop body, and it is
\* its own cleanup that released the handle.
C6_Witness ==
    /\ pc = "returned"
    /\ exit = "exception"
    /\ ~mainDone
    /\ cap = "released"

\* A processed iteration in which the recognition engine failed.
FailedRecognition == IterationDone /\ frame = OcrFail

\* C7 as stated: a recognition failure sends nothing, leaves last_number alone
\* and does not end the loop; the loop is left only on a failed read or an
\* explicit stop request (stop key, running flag cleared, KeyboardInterrupt).
C7_OnlyReadFailureOrStop ==
    /\ FailedRecognition =>
          /\ ~SentThisIteration
          /\ last_number = before.last
          /\ pc = "finally" => exit = "stop_key"
    /\ pc = "finally" => exit \in {"read_failed", "stop_key", "flag", "interrupt"}

\* C7 as amended: the loop is also left when the loop body raises an exception
\* outside extraction (the preview of lines 179-182).
C7_FailureKeepsLoop ==
    /\ FailedRecognition =>
          /\ ~SentThisIteration
          /\ last_number = before.last
          /\ pc = "finally" => exit \in {"stop_key", "exception"}
    /\ pc = "finally" =>
          exit \in {"read_failed", "stop_key", "flag", "interrupt", "exception"}

\* A recognition failure on a processed frame after a number had been sent, and
\* the loop goes on.
C7_Witness ==
    /\ FailedRecognition
    /\ pc = "loop"
    /\ before.last # None
    /\ last_number = before.last

\* C8: the frames passed to extraction are exactly those whose acquisition
\* index is a multiple of the decimation factor, and frame_count is the number
\* of frames acquired before the one in hand.
C8_Decimation ==
    /\ extracted = {i \in 0..(acquired - 1) : i % DecimationFactor = 0}
    /\ pc \in {"loop", "read"} => frame_count = acquired
    /\ pc \in {"send", "assign"} => frame_count = acquired - 1
    /\ pc = "finally" => frame_count \in {acquired - 1, acquired}

\* Frames 0 to 9 were acquired and frames 0 and 5 went through extraction.
C8_Witness ==
    /\ pc = "loop"
    /\ frame_count = LoopFrames
    /\ acquired = LoopFrames
    /\ extracted = {0, DecimationFactor}

\* C9: no observer is delivered an event that was built before it attached.
C9_NoReplay ==
    \A c \in Clients : \A i \in 1..Len(received[c]) : received[c][i] \notin prior[c]

\* C10: a publish that finds no observer (send_number_sync at line 69,
\* broadcast_number at line 33) starts no send and changes neither the observer
\* set nor last_number.
C10_EmptyPublishNoOp ==
    [][/\ (pc = "send" /\ pc' = "assign" /\ connected_clients = {})
          => UNCHANGED << connected_clients, last_number, th, nThreads, received >>
       /\ \A t \in Threads :
             (th[t].pc = "start" /\ th'[t].pc # "start" /\ connected_clients = {})
             => /\ th'[t] = Ended
                /\ UNCHANGED << connected_clients, last_number, received >>]_vars

\* send_number_sync has returned from a call made with no observer attached.
C10_Witness ==
    /\ pc = "assign"
    /\ Len(emitted) = 1
    /\ nThreads = 0
    /\ connected_clients = {}


\* C11: register_client leaves the observer in the set and changes nothing else,
\* so nothing at all when it was there; unregister_client leaves it out of the
\* set and changes nothing else, so nothing at all when it was not there.
C11_AttachDetachIdempotent ==
    \A i \in 1..Len(calls) :
       LET call == calls[i]
       IN  /\ call.new \ {call.client} = call.old \ {call.client}
           /\ call.op = "attach" => call.client \in call.new
           /\ call.op = "detach" => call.client \notin call.new
           /\ (call.op = "attach" /\ call.client \in call.old) => call.new = call.old
           /\ (call.op = "detach" /\ call.client \notin call.old) => call.new = call.old

\* An observer was attached twice in a row and then detached twice in a row.
C11_Witness ==
    /\ Len(calls) = MaxCalls
    /\ calls[1].op = "attach" /\ calls[1].client \in calls[1].old
    /\ calls[2].op = "detach" /\ calls[2].client = calls[1].client
    /\ calls[3].op = "detach" /\ calls[3].client = calls[1].client


\* How many numbers the texts of the fragments hold.
RECURSIVE MatchCount(_)
MatchCount(frags) ==
    IF frags = <<>> THEN 0
    ELSE Len(FindAll(Strip(Head(frags).text))) + MatchCount(Tail(frags))

AboveThreshold(frag) ==
    \/ frag.conf.whole > confidence_threshold
    \/ frag.conf.whole = confidence_threshold /\ frag.conf.tenths > 0

WholeAboveThreshold(frag) == frag.conf.whole > confidence_threshold

\* C12 as stated: a fragment contributes the numbers of its text if and only if
\* its confidence is strictly greater than the threshold.
C12_StrictlyAboveThreshold ==
    (pc = "extracted" /\ frame.ok) =>
        Len(returned) = MatchCount(SelectSeq(frame.frags, AboveThreshold))

\* C12, amended: a fragment contributes the numbers of its text if and only if
\* the whole part of its confidence is strictly greater than the threshold; so a
\* fragment exactly at the threshold is excluded and one a unit above is included.
C12_WholePartAboveThreshold ==
    (pc = "extracted" /\ frame.ok) =>
        Len(returned) = MatchCount(SelectSeq(frame.frags, WholeAboveThreshold))

\* A frame with the same text exactly at the threshold and one unit above it:
\* only the second fragment's number was extracted.
C12_Witness ==
    /\ pc = "extracted"
    /\ frame.ok
    /\ Len(frame.frags) = 2
    /\ frame.frags[1] = [text |-> <<"7">>, conf |-> Conf(confidence_threshold, 0)]
    /\ frame.frags[2] = [text |-> <<"7">>, conf |-> Conf(confidence_threshold + 1, 0)]
    /\ Len(returned) = 1


\* C13: an observer whose send does not complete is eventually detached from
\* the observer set.
C13_SlowObserverDropped ==
    \A t \in Threads : \A client \in Clients :
       (th[t].pc = "sending" /\ th[t].cur = {client})
          ~> (th[t].pc # "sending" \/ client \notin connected_clients)


\* Stop has been signalled to the loop: the stop key was read, or cleanup
\* cleared the running flag while the loop was in an iteration.
StopSignalled ==
    \/ exit = "stop_key"
    \/ pc \in InLoop /\ ~running

LoopState ==
    IF exit # "none" \/ pc \in {"finally", "returned"} THEN "Stopped"
    ELSE IF pc \in InLoop THEN "Running"
    ELSE "Idle"

\* The loop's state when the clearing of the running flag by cleanup already
\* counts as Stopped.
StateByFlag == IF LoopState = "Running" /\ ~running THEN "Stopped" ELSE LoopState

OnlyForward(from, to) ==
    /\ from = "Running" => to # "Idle"
    /\ from = "Stopped" => to = "Stopped"

C16_HandlerDetaches ==
    /\ [][\A client \in Clients :
             (conn[client] = "new" /\ conn'[client] = "open")
                => client \in connected_clients']_vars
    /\ [](\A client \in Clients :
             conn[client] = "gone" => client \notin connected_clients)
    /\ \A client \in Clients :
          (conn[client] = "closed")
             ~> (conn[client] = "gone" /\ client \notin connected_clients)

\* One connection has terminated and is out of the set while another is
\* still attached.
C16_Witness ==
    \E gone, open \in Clients :
       /\ conn[gone] = "gone" /\ gone \notin connected_clients
       /\ conn[open] = "open" /\ open \in connected_clients


\* C17: when the video source cannot be opened, start_detection has returned
\* without setting the running flag, without reading a frame, without a call
\* of extract_numbers and without emitting an event.
C17_OpenFailureNeverStarts ==
    exit = "open_failed" =>
       /\ pc = "returned"
       /\ ~running
       /\ cap = "unopened"
       /\ acquired = 0
       /\ extracted = {}
       /\ emitted = <<>>
       /\ nThreads = 0

\* The source did not open, and an observer has attached since.
C17_Witness ==
    /\ exit = "open_failed"
    /\ pc = "returned"
    /\ connected_clients # {}


\* The broadcast threads whose event was emitted while the observer was
\* attached: none was started before it attached, so that every thread, started
\* at line 69 on a non-empty observer set, was started after.
EmittedWhileAttached(c) ==
    IF /\ prior[c] = {}
       /\ connected_clients \subseteq {c}
       /\ \A d \in Clients \ {c} : conn[d] = "new"
    THEN {t \in Threads : th[t].pc # "unborn"}
    ELSE {}

\* C18: the events emitted while an observer is attached reach it in the order
\* of their emission (the broadcast threads are numbered in that order).
C18_EmissionOrder ==
    \A c \in Clients : \A i, j \in 1..Len(received[c]) :
       (i < j /\ {received[c][i], received[c][j]} \subseteq EmittedWhileAttached(c))
          => received[c][i] < received[c][j]


\* The detection thread calls cap.read(): the step that leaves line 160.
CallsRead == pc = "read" /\ pc' # "read" /\ exit' # "interrupt"

\* C19: cap.read() is never called on a handle that cleanup has released, and
\* the handle is released at most once.
C19_NoReadAfterRelease ==
    /\ [][CallsRead => cap # "released"]_vars
    /\ [](releases <= 1)


\* C20: a changed candidate sent to the hub while no observer is attached starts
\* no broadcast thread, last_number is updated all the same, and an iteration
\* whose first extracted number equals last_number sends nothing, whoever has
\* attached in between.
C20_UnobservedStillRecorded ==
    /\ [][(pc = "send" /\ pc' = "assign" /\ connected_clients = {})
             => (nThreads' = nThreads /\ th' = th)]_vars
    /\ [][(pc = "assign" /\ pc' # "assign" /\ exit' # "interrupt")
             => last_number' = current_number]_vars
    /\ [](IterationDone =>
             LET numbers == extract_numbers(frame)
             IN  (numbers # <<>> /\ NumEq(numbers[1], before.last))
                    => (Len(emitted) = before.n /\ last_number = before.last))

\* A number was detected with no observer attached; an observer then attached,
\* the next processed frame showed the same number, and nothing was sent to it.
C20_Witness ==
    /\ IterationDone
    /\ Len(emitted) = 1
    /\ nThreads = 0
    /\ extract_numbers(frame) # <<>>
    /\ NumEq(extract_numbers(frame)[1], last_number)
    /\ ~SentThisIteration
    /\ \E c \in connected_clients : conn[c] = "open" /\ received[c] = <<>>

====
